---------------------------- MODULE Spec2Model ----------------------------
(***************************************************************************)
(* A model of src/utils/embed.py: train_embeddings, load_embeddings and    *)
(* evaluate_model.  Each external library call of the file is one step of  *)
(* the state machine, so that the order of the calls, the arguments they   *)
(* receive and what reaches the disk are all visible in the state.         *)
(*                                                                         *)
(* A behaviour is one call of evaluate_model (Init picks its arguments) or *)
(* one call of train_embeddings followed by calls of load_embeddings on    *)
(* the file it wrote.                                                      *)
(***************************************************************************)
EXTENDS Integers, Sequences, FiniteSets, TLC

VARIABLES
    pc,         \* the statement about to run
    \* ---- evaluate_model (lines 47-59)
    n,          \* number of samples: X and y hold the samples 0..n-1
    cv,         \* argument cv
    report,     \* argument report
    max_epochs, \* argument max_epochs
    X_train,    \* line 49: indices of the hold-out train part
    X_test,     \* line 49: indices of the hold-out test part
    kf,         \* line 53/55: number of folds the KFold generator has yielded
    train,      \* line 55: train indices of the current fold
    test,       \* line 55: test indices of the current fold
    y_pred,     \* line 51/57: the latest prediction
    cv_scores,  \* line 54/58
    fitLog,     \* every model.fit call, in order
    predictLog, \* every model.predict call, in order
    printed,    \* every classification report printed, in order
    fitted,     \* the model object's state: every sample index ever passed to fit
    \* ---- train_embeddings (lines 13-37)
    args,       \* the arguments of the call
    relations,  \* line 27
    model,      \* line 30
    trainCall,  \* line 32: the arguments model.train received
    saveCall,   \* line 35: the arguments save_word2vec_format received
    calls,      \* the external calls made, in order
    failures,   \* the external calls that raised, in order
    fs,         \* the files written: path -> lines
    writes,     \* every write to the disk, in order: the path written
    \* ---- load_embeddings (lines 39-44)
    loadArgs,   \* the arguments of the call
    emb         \* the table returned, or the error raised

evalVars == <<n, cv, report, max_epochs, X_train, X_test, kf, train, test, y_pred,
              cv_scores, fitLog, predictLog, printed, fitted>>

trainVars == <<args, relations, model, trainCall, saveCall, calls, failures, fs, writes>>

loadVars == <<loadArgs, emb>>

vars == <<pc, evalVars, trainVars, loadVars>>

---------------------------------------------------------------------------
(* Bounds of the model *)

MaxN == 5

MaxCv == 4

MaxSize == 3

MaxOverrides == 1

Range(s) == {s[i] : i \in 1..Len(s)}

---------------------------------------------------------------------------
(* Text: a line is a sequence of characters, a file a sequence of lines *)

DigitChars == <<"0", "1", "2", "3", "4", "5", "6", "7", "8", "9">>

IsDigit(c) == c \in Range(DigitChars)

DigitVal(c) == CHOOSE d \in 0..9 : DigitChars[d + 1] = c

Abs(k) == IF k < 0 THEN -k ELSE k

\* str(k) of a natural number
RECURSIVE FormatNat(_)
FormatNat(k) == IF k < 10 THEN <<DigitChars[k + 1]>>
                ELSE FormatNat(k \div 10) \o <<DigitChars[(k % 10) + 1]>>

\* repr of a coordinate; a coordinate k stands for k / 10, with |k| < 10
FormatCoord(k) == (IF k < 0 THEN <<"-">> ELSE <<>>) \o <<"0", ".", DigitChars[Abs(k) + 1]>>

\* ' '.join(tokens), for any separator
RECURSIVE Join(_, _)
Join(tokens, sep) ==
    IF tokens = <<>> THEN <<>>
    ELSE IF Len(tokens) = 1 THEN tokens[1]
    ELSE tokens[1] \o <<sep>> \o Join(Tail(tokens), sep)

\* line.split(sep): every occurrence of sep ends a field
RECURSIVE Split(_, _)
Split(line, sep) ==
    IF \A i \in 1..Len(line) : line[i] # sep THEN <<line>>
    ELSE LET k == CHOOSE i \in 1..Len(line) :
                      line[i] = sep /\ \A j \in 1..(i - 1) : line[j] # sep
         IN <<SubSeq(line, 1, k - 1)>> \o Split(SubSeq(line, k + 1, Len(line)), sep)

Unsigned(tok) == IF tok # <<>> /\ tok[1] = "-" THEN Tail(tok) ELSE tok

IsNat(tok) == tok # <<>> /\ \A i \in 1..Len(tok) : IsDigit(tok[i])

RECURSIVE NatVal(_)
NatVal(tok) == IF tok = <<>> THEN 0
               ELSE 10 * NatVal(SubSeq(tok, 1, Len(tok) - 1)) + DigitVal(tok[Len(tok)])

IsInt(tok) == IsNat(Unsigned(tok))

IntVal(tok) == IF tok[1] = "-" THEN -NatVal(Unsigned(tok)) ELSE NatVal(tok)

\* a decimal with one fractional digit, the only decimals the writer produces
IsFloat(tok) ==
    LET u == Unsigned(tok)
    IN /\ Len(u) >= 3
       /\ u[Len(u) - 1] = "."
       /\ IsNat(SubSeq(u, 1, Len(u) - 2))
       /\ IsDigit(u[Len(u)])

\* the value of such a decimal, in tenths
FloatVal(tok) ==
    LET u == Unsigned(tok)
        v == 10 * NatVal(SubSeq(u, 1, Len(u) - 2)) + DigitVal(u[Len(u)])
    IN IF tok[1] = "-" THEN -v ELSE v

\* the cells of a table
IntCell(k) == [kind |-> "int", v |-> k, s |-> <<>>]

FloatCell(k) == [kind |-> "float", v |-> k, s |-> <<>>]

StrCell(tok) == [kind |-> "str", v |-> 0, s |-> tok]

NaNCell == [kind |-> "nan", v |-> 0, s |-> <<>>]

---------------------------------------------------------------------------
(* train_embeddings: its arguments and the external embedding library.     *)
(* gensim's PoincareRelations, PoincareModel, train and                    *)
(* save_word2vec_format are modelled by what they are documented to do:    *)
(* the vocabulary is built from the relations, training replaces the       *)
(* vectors, and the vector file is a header "count dimension" followed by  *)
(* a line "word c1 ... c_dimension" per word.                              *)

Paths == {"relations.tsv", "vectors.txt"}

Delims == {" ", ","}

\* lines 16-24: the defaults of the keyword arguments
Defaults == [size |-> 2, alpha |-> "0.1", burn_in |-> 10, burn_in_alpha |-> "0.01",
             workers |-> 1, negative |-> 10, epochs |-> 100, print_every |-> 500,
             batch_size |-> 10]

\* the values a caller passes: the default or another value
ArgValues == [input_path : Paths, delimiter : Delims, output_path : Paths,
              size : 1..MaxSize, alpha : {"0.1", "0.5"}, burn_in : {10, 20},
              burn_in_alpha : {"0.01", "0.05"}, workers : {1, 4}, negative : {10, 5},
              epochs : {100, 50}, print_every : {500, 100}, batch_size : {10, 32}]

Overrides(a) == Cardinality({k \in DOMAIN Defaults : a[k] # Defaults[k]})

\* the calls of train_embeddings: any paths and delimiter, at most
\* MaxOverrides keyword arguments given
Calls == {a \in ArgValues : Overrides(a) <= MaxOverrides}

\* what the relation file can hold: its lines, each a pair of nodes
RelationFiles ==
    { << <<<<"a">>, <<"a">>>> >>,
      << <<<<"a">>, <<"b", "1">>>> >>,
      << <<<<"a">>, <<"b", "1">>>>, <<<<"b", "1">>, <<"b", "1">>>> >> }

\* the coordinates training can produce, in tenths
Coords == {-3, 7}

NoRelations == [file_path |-> "", delimiter |-> "", pairs |-> <<>>]

\* PoincareRelations(file_path=, delimiter=)
PoincareRelations(file_path, delimiter, pairs) ==
    [file_path |-> file_path, delimiter |-> delimiter, pairs |-> pairs]

RECURSIVE Flatten(_)
Flatten(pairs) == IF pairs = <<>> THEN <<>> ELSE pairs[1] \o Flatten(Tail(pairs))

Count(seq, w) == Cardinality({i \in 1..Len(seq) : seq[i] = w})

\* the distinct elements of seq, in the order of their first appearance
RECURSIVE Distinct(_)
Distinct(seq) ==
    IF seq = <<>> THEN <<>>
    ELSE LET front == Distinct(SubSeq(seq, 1, Len(seq) - 1))
         IN IF seq[Len(seq)] \in Range(front) THEN front
            ELSE Append(front, seq[Len(seq)])

Zeros(k) == [i \in 1..k |-> 0]

\* the vocabulary PoincareModel builds from the relations: every node, in the
\* order of its first appearance, with the number of times it appears
InitialKv(pairs, size) ==
    LET nodes == Flatten(pairs)
        words == Distinct(nodes)
    IN [i \in 1..Len(words) |->
           [word |-> words[i], count |-> Count(nodes, words[i]), vector |-> Zeros(size)]]

NoModel == [train_data |-> NoRelations, size |-> 0, alpha |-> "", burn_in |-> 0,
            burn_in_alpha |-> "", workers |-> 0, negative |-> 0,
            trained |-> FALSE, kv |-> <<>>]

\* PoincareModel(train_data=, size=, alpha=, burn_in=, burn_in_alpha=, workers=, negative=)
PoincareModel(train_data, size, alpha, burn_in, burn_in_alpha, workers, negative) ==
    [train_data |-> train_data, size |-> size, alpha |-> alpha, burn_in |-> burn_in,
     burn_in_alpha |-> burn_in_alpha, workers |-> workers, negative |-> negative,
     trained |-> FALSE, kv |-> InitialKv(train_data.pairs, size)]

NoTrainCall == [made |-> FALSE, epochs |-> 0, print_every |-> 0, batch_size |-> 0]

\* model.train(epochs=, print_every=, batch_size=)
TrainArgs(epochs, print_every, batch_size) ==
    [made |-> TRUE, epochs |-> epochs, print_every |-> print_every,
     batch_size |-> batch_size]

\* the vectors training can leave in the model: size coordinates per node
TrainedKvs(kv, size) ==
    {[i \in 1..Len(kv) |-> [kv[i] EXCEPT !.vector = vs[i]]] :
        vs \in [1..Len(kv) -> [1..size -> Coords]]}

\* save_word2vec_format writes the words by falling count, ties in vocabulary order
SavedOrder(kv) ==
    CHOOSE p \in [1..Len(kv) -> 1..Len(kv)] :
        /\ \A i, j \in 1..Len(kv) : i # j => p[i] # p[j]
        /\ \A i, j \in 1..Len(kv) :
              i < j => \/ kv[p[i]].count > kv[p[j]].count
                       \/ (kv[p[i]].count = kv[p[j]].count /\ p[i] < p[j])

\* one line of the vector file: the word and its coordinates, separated by spaces
VectorLine(entry) ==
    Join(<<entry.word>> \o [i \in 1..Len(entry.vector) |-> FormatCoord(entry.vector[i])], " ")

\* kv.save_word2vec_format: a header line "count dimension", then a line per word
Word2VecFormat(kv, size) ==
    <<Join(<<FormatNat(Len(kv)), FormatNat(size)>>, " ")>>
    \o [i \in 1..Len(kv) |-> VectorLine(kv[SavedOrder(kv)[i]])]

NoFile == <<>>

NoSaveCall == [made |-> FALSE, fname |-> ""]

---------------------------------------------------------------------------
(* load_embeddings: the table library (pandas), as far as lines 41-43 use  *)
(* it: header inference, the implicit index, reset_index and the           *)
(* assignment of column names.                                             *)

NoTable == [err |-> "", nlevels |-> 0, index |-> <<>>, columns |-> <<>>, rows |-> <<>>]

Raised(e) == [NoTable EXCEPT !.err = e]

Width(rows) == IF rows = <<>> THEN 0 ELSE Len(rows[1])

\* the cells of column j of the rows: a column of integers, of decimals, or of strings
ColumnCells(rows, j) ==
    LET toks == [i \in 1..Len(rows) |-> IF j <= Len(rows[i]) THEN rows[i][j] ELSE <<>>]
        present == {i \in 1..Len(rows) : j <= Len(rows[i])}
        kind == IF \A i \in present : IsInt(toks[i]) THEN "int"
                ELSE IF \A i \in present : IsInt(toks[i]) \/ IsFloat(toks[i]) THEN "float"
                ELSE "str"
    IN [i \in 1..Len(rows) |->
           IF i \notin present THEN NaNCell
           ELSE IF kind = "int" THEN IntCell(IntVal(toks[i]))
           ELSE IF kind = "float"
                THEN FloatCell(IF IsInt(toks[i]) THEN 10 * IntVal(toks[i]) ELSE FloatVal(toks[i]))
           ELSE StrCell(toks[i])]

\* pd.read_table(file, delimiter=sep): the first line names the columns; when the
\* first data line holds more fields than there are names, the leading fields are
\* the index; a later line with more fields than that is an error
read_table(file, sep) ==
    IF file = <<>> THEN Raised("EmptyDataError")
    ELSE LET header == Split(file[1], sep)
             data == [i \in 1..(Len(file) - 1) |-> Split(file[i + 1], sep)]
             lead == IF Width(data) > Len(header) THEN Width(data) - Len(header) ELSE 0
             cells == [j \in 1..(lead + Len(header)) |-> ColumnCells(data, j)]
         IN IF \E i \in 1..Len(data) : Len(data[i]) > lead + Len(header)
            THEN Raised("ParserError")
            ELSE [err |-> "",
                  nlevels |-> lead,
                  index |-> [i \in 1..Len(data) |-> [j \in 1..lead |-> cells[j][i]]],
                  columns |-> header,
                  rows |-> [i \in 1..Len(data) |->
                               [j \in 1..Len(header) |-> cells[lead + j][i]]]]

\* the names reset_index gives the index columns
IndexNames(nlevels) ==
    IF nlevels <= 1 THEN <<"index">>
    ELSE [j \in 1..nlevels |-> <<"level", j - 1>>]

\* emb.reset_index(): the index becomes the leading columns; a table read
\* without index columns has the row numbers 0, 1, ... as its index
reset_index(t) ==
    IF t.err # "" THEN t
    ELSE [err |-> "",
          nlevels |-> 0,
          index |-> [i \in 1..Len(t.rows) |-> <<>>],
          columns |-> IndexNames(t.nlevels) \o t.columns,
          rows |-> [i \in 1..Len(t.rows) |->
                       (IF t.nlevels = 0 THEN <<IntCell(i - 1)>> ELSE t.index[i])
                       \o t.rows[i]]]

\* emb.columns = names: a ValueError unless there is a name per column
set_columns(t, names) ==
    IF t.err # "" THEN t
    ELSE IF Len(t.columns) # Len(names) THEN Raised("ValueError")
    ELSE [t EXCEPT !.columns = names]

\* lines 41-43 with the separator sep
LoadWith(file, sep) == set_columns(reset_index(read_table(file, sep)), <<"node", "x", "y">>)

\* lines 41-43 with the call of reset_index left out
load_embeddings_NoResetIndex(file, delim) ==
    set_columns(read_table(file, " "), <<"node", "x", "y">>)

\* lines 39-44
load_embeddings(file, delim) == LoadWith(file, " ")

NoLoad == [file_path |-> "", delim |-> ""]

---------------------------------------------------------------------------
(* evaluate_model: the external toolkit's functions (scikit-learn), as the *)
(* code uses them: train_test_split with test_size=0.3, KFold without      *)
(* shuffling, and the two scoring functions.                               *)

\* The samples of X (and the labels of y) are named by their index.
Samples(m) == 0..(m - 1)

\* A prediction for a set of samples is one of the arrays a model can return;
\* it remembers the samples it was made for.
Outputs == {"out_a", "out_b"}

NoPred == [of |-> {}, out |-> "none"]

\* train_test_split(X, y, test_size=0.3): n_test = ceil(0.3 * n)
NTest(m) == (3 * m + 9) \div 10

\* train_test_split(X, y, test_size=0.3) raises ValueError when a part is empty
SplitRaises(m) == m = 0 \/ m - NTest(m) = 0

\* the shuffled splits train_test_split can return: <<train, test>>
train_test_split(m) ==
    {<<Samples(m) \ t, t>> : t \in {s \in SUBSET Samples(m) : Cardinality(s) = NTest(m)}}

\* KFold(n_splits=cv) raises ValueError for cv < 2
KFoldRaises(k) == k < 2

\* KFold.split(X) raises ValueError when there are more splits than samples
KFoldSplitRaises(m, k) == k > m

\* KFold without shuffling: the first m % k folds hold m \div k + 1 samples,
\* the others m \div k
FoldSize(m, k, i) == (m \div k) + (IF i <= m % k THEN 1 ELSE 0)

RECURSIVE FoldStart(_, _, _)
FoldStart(m, k, i) == IF i <= 1 THEN 0 ELSE FoldStart(m, k, i - 1) + FoldSize(m, k, i - 1)

\* the test indices of fold i (1..k): a contiguous block
KFoldTest(m, k, i) == FoldStart(m, k, i) .. (FoldStart(m, k, i) + FoldSize(m, k, i) - 1)

\* the train indices of fold i: every other index
KFoldTrain(m, k, i) == Samples(m) \ KFoldTest(m, k, i)

\* f1_score(y[test], y_pred, average='macro'): a function of its two arguments
f1_score(y_true, pred) == [metric |-> "f1_macro", y_true |-> y_true, y_pred |-> pred]

\* classification_report(y_test, y_pred)
classification_report(y_true, pred) == [y_true |-> y_true, y_pred |-> pred]

\* model.fit(X[idx], y[idx], max_epochs=max_epochs)
FitCall(phase, idx) == [phase |-> phase, X |-> idx, y |-> idx, max_epochs |-> max_epochs]

\* model.predict(X[idx]) returning out, on a model that has been fit on `fitted`
PredictCall(phase, idx, o) == [phase |-> phase, X |-> idx, seen |-> fitted, out |-> o]

---------------------------------------------------------------------------
(* train_embeddings and load_embeddings: the steps *)

EvalIdle ==
    /\ n = 0 /\ cv = 0 /\ report = FALSE /\ max_epochs = 0
    /\ X_train = {} /\ X_test = {}
    /\ kf = 0
    /\ train = {} /\ test = {}
    /\ y_pred = NoPred
    /\ cv_scores = <<>>
    /\ fitLog = <<>>
    /\ predictLog = <<>>
    /\ printed = <<>>
    /\ fitted = {}

EmbedIdle ==
    /\ relations = NoRelations
    /\ model = NoModel
    /\ trainCall = NoTrainCall
    /\ saveCall = NoSaveCall
    /\ calls = <<>>
    /\ failures = <<>>
    /\ fs = [p \in Paths |-> NoFile]
    /\ writes = <<>>
    /\ loadArgs = NoLoad
    /\ emb = NoTable

InitEmbed ==
    /\ pc = "te_start"
    /\ args \in Calls
    /\ EmbedIdle
    /\ EvalIdle

\* an external call raises: the exception leaves train_embeddings
Raise(fn) ==
    /\ calls' = Append(calls, fn)
    /\ failures' = Append(failures, fn)
    /\ pc' = "te_raised"

\* line 27
ReadRelations ==
    /\ pc = "te_start"
    /\ \E pairs \in RelationFiles :
          relations' = PoincareRelations(args.input_path, args.delimiter, pairs)
    /\ calls' = Append(calls, "PoincareRelations")
    /\ pc' = "te_model"
    /\ UNCHANGED <<args, model, trainCall, saveCall, failures, fs, writes>>
    /\ UNCHANGED <<evalVars, loadVars>>

\* line 27 raising
ReadRelationsRaises ==
    /\ pc = "te_start"
    /\ Raise("PoincareRelations")
    /\ UNCHANGED <<args, relations, model, trainCall, saveCall, fs, writes>>
    /\ UNCHANGED <<evalVars, loadVars>>

\* lines 30-31 with alpha and burn_in_alpha passed in each other's place
ConstructModel_SwapsAlphas ==
    /\ pc = "te_model"
    /\ model' = PoincareModel(relations, args.size, args.burn_in_alpha, args.burn_in,
                              args.alpha, args.workers, args.negative)
    /\ calls' = Append(calls, "PoincareModel")
    /\ pc' = "te_train"
    /\ UNCHANGED <<args, relations, trainCall, saveCall, failures, fs, writes>>
    /\ UNCHANGED <<evalVars, loadVars>>

\* lines 30-31
ConstructModel ==
    /\ pc = "te_model"
    /\ model' = PoincareModel(relations, args.size, args.alpha, args.burn_in,
                              args.burn_in_alpha, args.workers, args.negative)
    /\ calls' = Append(calls, "PoincareModel")
    /\ pc' = "te_train"
    /\ UNCHANGED <<args, relations, trainCall, saveCall, failures, fs, writes>>
    /\ UNCHANGED <<evalVars, loadVars>>

\* lines 30-31 raising
ConstructModelRaises ==
    /\ pc = "te_model"
    /\ Raise("PoincareModel")
    /\ UNCHANGED <<args, relations, model, trainCall, saveCall, fs, writes>>
    /\ UNCHANGED <<evalVars, loadVars>>

\* line 32 with the vectors saved before training instead of after
TrainCalled_SavesFirst ==
    /\ pc = "te_train"
    /\ trainCall' = TrainArgs(args.epochs, args.print_every, args.batch_size)
    /\ fs' = [fs EXCEPT ![args.output_path] = Word2VecFormat(model.kv, model.size)]
    /\ writes' = Append(writes, args.output_path)
    /\ calls' = Append(calls, "train")
    /\ pc' = "te_training"
    /\ UNCHANGED <<args, relations, model, saveCall, failures>>
    /\ UNCHANGED <<evalVars, loadVars>>

\* line 32: model.train is called
TrainCalled ==
    /\ pc = "te_train"
    /\ trainCall' = TrainArgs(args.epochs, args.print_every, args.batch_size)
    /\ calls' = Append(calls, "train")
    /\ pc' = "te_training"
    /\ UNCHANGED <<args, relations, model, saveCall, failures, fs, writes>>
    /\ UNCHANGED <<evalVars, loadVars>>

\* line 32: model.train returns
TrainReturns ==
    /\ pc = "te_training"
    /\ \E kv \in TrainedKvs(model.kv, model.size) :
          model' = [model EXCEPT !.kv = kv, !.trained = TRUE]
    /\ pc' = "te_save"
    /\ UNCHANGED <<args, relations, trainCall, saveCall, calls, failures, fs, writes>>
    /\ UNCHANGED <<evalVars, loadVars>>

\* line 32 with the exception of model.train caught and ignored
TrainRaises_Swallowed ==
    /\ pc = "te_training"
    /\ failures' = Append(failures, "train")
    /\ pc' = "te_save"
    /\ UNCHANGED <<args, relations, model, trainCall, saveCall, calls, fs, writes>>
    /\ UNCHANGED <<evalVars, loadVars>>

\* line 32: model.train raises
TrainRaises ==
    /\ pc = "te_training"
    /\ failures' = Append(failures, "train")
    /\ pc' = "te_raised"
    /\ UNCHANGED <<args, relations, model, trainCall, saveCall, calls, fs, writes>>
    /\ UNCHANGED <<evalVars, loadVars>>

\* line 35
Save ==
    /\ pc = "te_save"
    /\ saveCall' = [made |-> TRUE, fname |-> args.output_path]
    /\ fs' = [fs EXCEPT ![args.output_path] = Word2VecFormat(model.kv, model.size)]
    /\ writes' = Append(writes, args.output_path)
    /\ calls' = Append(calls, "save_word2vec_format")
    /\ pc' = "te_return"
    /\ UNCHANGED <<args, relations, model, trainCall, failures>>
    /\ UNCHANGED <<evalVars, loadVars>>

\* line 37
ReturnNone ==
    /\ pc = "te_return"
    /\ pc' = "te_done"
    /\ UNCHANGED <<evalVars, trainVars, loadVars>>

\* lines 39-44, on a file train_embeddings has written
Load ==
    /\ pc = "te_done"
    /\ \E file_path \in {p \in Paths : fs[p] # NoFile}, delim \in Delims :
          /\ loadArgs' = [file_path |-> file_path, delim |-> delim]
          /\ emb' = load_embeddings(fs[file_path], delim)
    /\ pc' = "le_done"
    /\ UNCHANGED <<evalVars, trainVars>>

NextEmbed ==
    \/ ReadRelations
    \/ ReadRelationsRaises
    \/ ConstructModel
    \/ ConstructModelRaises
    \/ TrainCalled
    \/ TrainReturns
    \/ TrainRaises
    \/ Save
    \/ ReturnNone
    \/ Load

---------------------------------------------------------------------------
(* evaluate_model: the steps *)

InitEval ==
    /\ n \in 0..MaxN
    /\ cv \in 1..MaxCv
    /\ report \in BOOLEAN
    /\ max_epochs = 10
    /\ pc = "ev_start"
    /\ X_train = {} /\ X_test = {}
    /\ kf = 0
    /\ train = {} /\ test = {}
    /\ y_pred = NoPred
    /\ cv_scores = <<>>
    /\ fitLog = <<>>
    /\ predictLog = <<>>
    /\ printed = <<>>
    /\ fitted = {}
    /\ args = CHOOSE a \in Calls : Overrides(a) = 0
    /\ EmbedIdle

\* line 48, report false: straight to line 53
SkipReport ==
    /\ pc = "ev_start" /\ ~report
    /\ pc' = "ev_kfold"
    /\ UNCHANGED <<evalVars, trainVars, loadVars>>

\* line 49 run whatever report says
HoldoutSplit_Always ==
    /\ pc = "ev_start" /\ ~SplitRaises(n)
    /\ \E s \in train_test_split(n) : X_train' = s[1] /\ X_test' = s[2]
    /\ pc' = "ev_holdout_fit"
    /\ UNCHANGED <<n, cv, report, max_epochs, kf, train, test, y_pred, cv_scores,
                   fitLog, predictLog, printed, fitted>>
    /\ UNCHANGED <<trainVars, loadVars>>

\* line 49
HoldoutSplit ==
    /\ pc = "ev_start" /\ report /\ ~SplitRaises(n)
    /\ \E s \in train_test_split(n) : X_train' = s[1] /\ X_test' = s[2]
    /\ pc' = "ev_holdout_fit"
    /\ UNCHANGED <<n, cv, report, max_epochs, kf, train, test, y_pred, cv_scores,
                   fitLog, predictLog, printed, fitted>>
    /\ UNCHANGED <<trainVars, loadVars>>

\* line 49 raising
HoldoutSplitRaises ==
    /\ pc = "ev_start" /\ report /\ SplitRaises(n)
    /\ pc' = "ev_raised"
    /\ UNCHANGED <<evalVars, trainVars, loadVars>>

\* line 50
HoldoutFit ==
    /\ pc = "ev_holdout_fit"
    /\ fitLog' = Append(fitLog, FitCall("holdout", X_train))
    /\ fitted' = fitted \cup X_train
    /\ pc' = "ev_holdout_predict"
    /\ UNCHANGED <<n, cv, report, max_epochs, X_train, X_test, kf, train, test, y_pred,
                   cv_scores, predictLog, printed>>
    /\ UNCHANGED <<trainVars, loadVars>>

\* line 51
HoldoutPredict ==
    /\ pc = "ev_holdout_predict"
    /\ \E o \in Outputs :
          /\ y_pred' = [of |-> X_test, out |-> o]
          /\ predictLog' = Append(predictLog, PredictCall("holdout", X_test, o))
    /\ pc' = "ev_holdout_report"
    /\ UNCHANGED <<n, cv, report, max_epochs, X_train, X_test, kf, train, test,
                   cv_scores, fitLog, printed, fitted>>
    /\ UNCHANGED <<trainVars, loadVars>>

\* line 52
HoldoutReport ==
    /\ pc = "ev_holdout_report"
    /\ printed' = Append(printed, classification_report(X_test, y_pred))
    /\ pc' = "ev_kfold"
    /\ UNCHANGED <<n, cv, report, max_epochs, X_train, X_test, kf, train, test, y_pred,
                   cv_scores, fitLog, predictLog, fitted>>
    /\ UNCHANGED <<trainVars, loadVars>>

\* lines 53-54
MakeKFold ==
    /\ pc = "ev_kfold" /\ ~KFoldRaises(cv)
    /\ kf' = 0
    /\ cv_scores' = <<>>
    /\ pc' = "ev_for"
    /\ UNCHANGED <<n, cv, report, max_epochs, X_train, X_test, train, test, y_pred,
                   fitLog, predictLog, printed, fitted>>
    /\ UNCHANGED <<trainVars, loadVars>>

\* line 53 raising
MakeKFoldRaises ==
    /\ pc = "ev_kfold" /\ KFoldRaises(cv)
    /\ pc' = "ev_raised"
    /\ UNCHANGED <<evalVars, trainVars, loadVars>>

\* line 55: the generator yields the next fold
NextFold ==
    /\ pc = "ev_for" /\ ~KFoldSplitRaises(n, cv) /\ kf < cv
    /\ kf' = kf + 1
    /\ train' = KFoldTrain(n, cv, kf + 1)
    /\ test' = KFoldTest(n, cv, kf + 1)
    /\ pc' = "ev_fold_fit"
    /\ UNCHANGED <<n, cv, report, max_epochs, X_train, X_test, y_pred, cv_scores,
                   fitLog, predictLog, printed, fitted>>
    /\ UNCHANGED <<trainVars, loadVars>>

\* line 55: the generator raises on its first step
SplitRaisesValueError ==
    /\ pc = "ev_for" /\ KFoldSplitRaises(n, cv)
    /\ pc' = "ev_raised"
    /\ UNCHANGED <<evalVars, trainVars, loadVars>>

\* line 56 fitting on all of X and y instead of X[train], y[train]
FoldFit_FitsAll ==
    /\ pc = "ev_fold_fit"
    /\ fitLog' = Append(fitLog, FitCall("fold", Samples(n)))
    /\ fitted' = fitted \cup Samples(n)
    /\ pc' = "ev_fold_predict"
    /\ UNCHANGED <<n, cv, report, max_epochs, X_train, X_test, kf, train, test, y_pred,
                   cv_scores, predictLog, printed>>
    /\ UNCHANGED <<trainVars, loadVars>>

\* line 56
FoldFit ==
    /\ pc = "ev_fold_fit"
    /\ fitLog' = Append(fitLog, FitCall("fold", train))
    /\ fitted' = fitted \cup train
    /\ pc' = "ev_fold_predict"
    /\ UNCHANGED <<n, cv, report, max_epochs, X_train, X_test, kf, train, test, y_pred,
                   cv_scores, predictLog, printed>>
    /\ UNCHANGED <<trainVars, loadVars>>

\* line 57
FoldPredict ==
    /\ pc = "ev_fold_predict"
    /\ \E o \in Outputs :
          /\ y_pred' = [of |-> test, out |-> o]
          /\ predictLog' = Append(predictLog, PredictCall("fold", test, o))
    /\ pc' = "ev_fold_score"
    /\ UNCHANGED <<n, cv, report, max_epochs, X_train, X_test, kf, train, test,
                   cv_scores, fitLog, printed, fitted>>
    /\ UNCHANGED <<trainVars, loadVars>>

\* line 58 scoring against y[train] instead of y[test]
FoldScore_OnTrain ==
    /\ pc = "ev_fold_score"
    /\ cv_scores' = Append(cv_scores, f1_score(train, y_pred))
    /\ pc' = "ev_for"
    /\ UNCHANGED <<n, cv, report, max_epochs, X_train, X_test, kf, train, test, y_pred,
                   fitLog, predictLog, printed, fitted>>
    /\ UNCHANGED <<trainVars, loadVars>>

\* line 58
FoldScore ==
    /\ pc = "ev_fold_score"
    /\ cv_scores' = Append(cv_scores, f1_score(test, y_pred))
    /\ pc' = "ev_for"
    /\ UNCHANGED <<n, cv, report, max_epochs, X_train, X_test, kf, train, test, y_pred,
                   fitLog, predictLog, printed, fitted>>
    /\ UNCHANGED <<trainVars, loadVars>>

\* line 55 (generator exhausted) and line 59
Return ==
    /\ pc = "ev_for" /\ ~KFoldSplitRaises(n, cv) /\ kf = cv
    /\ pc' = "ev_done"
    /\ UNCHANGED <<evalVars, trainVars, loadVars>>

NextEval ==
    \/ SkipReport
    \/ HoldoutSplit
    \/ HoldoutSplitRaises
    \/ HoldoutFit
    \/ HoldoutPredict
    \/ HoldoutReport
    \/ MakeKFold
    \/ MakeKFoldRaises
    \/ NextFold
    \/ SplitRaisesValueError
    \/ FoldFit
    \/ FoldPredict
    \/ FoldScore
    \/ Return

\* The body of evaluate_model is sequential code: a step whose call has
\* returned is followed by the next statement.
EvalSpec == InitEval /\ [][NextEval]_vars /\ WF_vars(NextEval)

Init == InitEmbed \/ InitEval

Next == NextEmbed \/ NextEval

Spec == Init /\ [][Next]_vars


---------------------------------------------------------------------------
(* train_embeddings and load_embeddings: what the calls they made show *)

StepOrder == <<"PoincareRelations", "PoincareModel", "train", "save_word2vec_format">>

IsPrefix(s, t) == Len(s) <= Len(t) /\ \A i \in 1..Len(s) : s[i] = t[i]

Returned == pc \in {"te_done", "le_done"}

\* C3: the external calls are made in the order read, construct (on the
\* relations read), train, save; nothing is written before model.train has
\* returned, the only write is the one of the save step, to output_path, of the
\* trained vectors, and a call that returns has made exactly one write.
C3_StepsInOrder ==
    /\ IsPrefix(calls, StepOrder)
    /\ model # NoModel => model.train_data = relations /\ relations # NoRelations
    /\ Len(writes) <= 1
    /\ \A p \in Paths : fs[p] # NoFile => (writes # <<>> /\ p = args.output_path)
    /\ writes # <<>> =>
          /\ writes = <<args.output_path>>
          /\ model.trained
          /\ calls = StepOrder
          /\ pc \notin {"te_start", "te_model", "te_train", "te_training"}
          /\ fs[args.output_path] = Word2VecFormat(model.kv, model.size)
    /\ Returned => (calls = StepOrder /\ Len(writes) = 1)

\* C3 witness: a call has returned after its one write
C3_Witness ==
    /\ pc = "te_done" /\ writes = <<args.output_path>>
    /\ fs[args.output_path] # NoFile

\* C5: when the read, the construction or the training raises, the call ends
\* with that exception, the failed call is the last external call made, the
\* save step is never invoked and nothing is written.
C5_ErrorStopsTheCall ==
    /\ pc = "te_raised" => failures # <<>>
    /\ failures # <<>> =>
          /\ pc = "te_raised"
          /\ Len(failures) = 1
          /\ failures[1] \in {"PoincareRelations", "PoincareModel", "train"}
          /\ IsPrefix(calls, StepOrder)
          /\ calls[Len(calls)] = failures[1]
          /\ ~saveCall.made
          /\ writes = <<>>
          /\ \A p \in Paths : fs[p] = NoFile

\* C5 witness: training has raised
C5_Witness == pc = "te_raised" /\ failures = <<"train">> /\ model # NoModel

\* C6: every external call receives the arguments of the same name,
\* unchanged: the reader input_path and delimiter; the constructor size, alpha,
\* burn_in, burn_in_alpha, workers and negative; train epochs, print_every and
\* batch_size; the save step output_path. A call that returns has made all four.
C6_ArgsForwarded ==
    /\ relations # NoRelations =>
          /\ relations.file_path = args.input_path
          /\ relations.delimiter = args.delimiter
    /\ model # NoModel =>
          /\ model.size = args.size
          /\ model.alpha = args.alpha
          /\ model.burn_in = args.burn_in
          /\ model.burn_in_alpha = args.burn_in_alpha
          /\ model.workers = args.workers
          /\ model.negative = args.negative
    /\ trainCall.made =>
          /\ trainCall.epochs = args.epochs
          /\ trainCall.print_every = args.print_every
          /\ trainCall.batch_size = args.batch_size
    /\ saveCall.made => saveCall.fname = args.output_path
    /\ Returned =>
          (relations # NoRelations /\ model # NoModel /\ trainCall.made /\ saveCall.made)

\* C6 witness: a call that gave a keyword argument and two different paths has returned
C6_Witness ==
    /\ pc = "te_done" /\ Overrides(args) >= 1
    /\ args.input_path # args.output_path
    /\ saveCall.made

\* C7: load_embeddings splits the fields on the delimiter passed as delim.
C7_SplitsOnDelim ==
    pc = "le_done" => emb = LoadWith(fs[loadArgs.file_path], loadArgs.delim)

\* the row load_embeddings should return for entry e of a two-dimensional model
RowOf(e) == <<StrCell(e.word), FloatCell(e.vector[1]), FloatCell(e.vector[2])>>

\* C8: loading the file written with size = 2 gives a table with the columns
\* node, x, y and one row per node line, in the order of the lines, each
\* holding the node's name and its two coordinates.
C8_RoundTripSize2 ==
    (pc = "le_done" /\ args.size = 2) =>
        /\ emb.err = ""
        /\ emb.columns = <<"node", "x", "y">>
        /\ Len(emb.rows) = Len(model.kv)
        /\ Len(emb.rows) = Len(fs[loadArgs.file_path]) - 1
        /\ \A i \in 1..Len(model.kv) :
              emb.rows[i] = RowOf(model.kv[SavedOrder(model.kv)[i]])

\* C8 witness: a two-dimensional file of two nodes, written in another order
\* than the vocabulary's, has been loaded
C8_Witness ==
    /\ pc = "le_done" /\ args.size = 2 /\ Len(model.kv) = 2
    /\ SavedOrder(model.kv)[1] = 2
    /\ model.kv[1].vector # model.kv[2].vector
    /\ Len(emb.rows) = 2

\* C9: for every size >= 1 the file train_embeddings wrote loads without an
\* error, into a table of one row per node.
C9_AnySizeLoads ==
    pc = "le_done" => (emb.err = "" /\ Len(emb.rows) = Len(model.kv))

---------------------------------------------------------------------------
(* evaluate_model: what the calls it made show *)

FoldFits == SelectSeq(fitLog, LAMBDA e : e.phase = "fold")

HoldoutFits == SelectSeq(fitLog, LAMBDA e : e.phase = "holdout")

FoldPredicts == SelectSeq(predictLog, LAMBDA e : e.phase = "fold")

HoldoutPredicts == SelectSeq(predictLog, LAMBDA e : e.phase = "holdout")

Ended == pc \in {"ev_done", "ev_raised"}

\* the score of fold i, as computed from that fold's predict call
ScoreOfFold(i) ==
    f1_score(FoldPredicts[i].X, [of |-> FoldPredicts[i].X, out |-> FoldPredicts[i].out])

\* C1: for 2 <= cv <= n the test index sets given to model.predict in the folds
\* are pairwise disjoint, each fold's fit receives exactly the complement of
\* its test indices (in X and in y), and on return the cv test sets cover
\* every index 0..n-1.
C1_FoldsPartition ==
    (2 <= cv /\ cv <= n) =>
        /\ \A i, j \in 1..Len(FoldPredicts) :
              i # j => FoldPredicts[i].X \cap FoldPredicts[j].X = {}
        /\ \A i \in 1..Len(FoldPredicts) :
              /\ FoldFits[i].X = Samples(n) \ FoldPredicts[i].X
              /\ FoldFits[i].y = Samples(n) \ FoldPredicts[i].X
        /\ pc = "ev_fold_predict" => FoldFits[Len(FoldFits)].X = Samples(n) \ test
        /\ pc = "ev_done" =>
              /\ Len(FoldPredicts) = cv
              /\ UNION {FoldPredicts[i].X : i \in 1..cv} = Samples(n)

\* C1 witness: a call with folds of unequal size has returned
C1_Witness ==
    /\ pc = "ev_done" /\ cv >= 3 /\ n % cv # 0
    /\ Len(FoldPredicts) = cv

\* C2 as claimed: every call ends by returning a list of exactly cv scores,
\* the i-th being the score of fold i.
C2_AsClaimed ==
    Ended =>
        /\ pc = "ev_done"
        /\ Len(cv_scores) = cv
        /\ \A i \in 1..Len(cv_scores) : cv_scores[i] = ScoreOfFold(i)

\* C2 amended: for 2 <= cv <= n (the splitter raises otherwise) the call
\* terminates by returning, and what it returns is a list of exactly cv scores,
\* the i-th computed in fold i from y[test_i] and the prediction on X[test_i],
\* whether or not report is set.
C2_ReturnsCvScores ==
    /\ [](pc = "ev_done" =>
            /\ Len(cv_scores) = cv
            /\ Len(FoldPredicts) = cv
            /\ \A i \in 1..cv :
                  /\ cv_scores[i] = ScoreOfFold(i)
                  /\ FoldPredicts[i].X = KFoldTest(n, cv, i))
    /\ [](pc = "ev_raised" => ~(2 <= cv /\ cv <= n))
    /\ ((2 <= cv /\ cv <= n) ~> (pc = "ev_done"))

\* C2 witness: a call with report set has returned three or more scores that
\* are not all from the same model output
C2_Witness ==
    /\ pc = "ev_done" /\ report /\ Len(cv_scores) = cv /\ cv >= 3
    /\ cv_scores[1].y_pred.out # cv_scores[2].y_pred.out

\* C4: the hold-out phase (a split into disjoint parts, the test part holding
\* ceil(0.3 n) samples; one fit on the train part, one predict on the test
\* part, one report) happens at most once, before any fold's fit, and only if
\* report is set; a call that returns has made cv + 1 fits with report set and
\* cv without.
C4_HoldoutOnceFirst ==
    /\ Len(HoldoutFits) <= 1 /\ Len(HoldoutPredicts) <= 1 /\ Len(printed) <= 1
    /\ ~report => (HoldoutFits = <<>> /\ HoldoutPredicts = <<>> /\ printed = <<>>)
    /\ \A i \in 1..Len(fitLog) : (fitLog[i].phase = "holdout") <=> (report /\ i = 1)
    /\ HoldoutFits # <<>> =>
          /\ HoldoutFits[1].X = X_train /\ HoldoutFits[1].y = X_train
          /\ X_train \cap X_test = {}
          /\ X_train \cup X_test = Samples(n)
          /\ 10 * Cardinality(X_test) >= 3 * n
          /\ 10 * (Cardinality(X_test) - 1) < 3 * n
    /\ HoldoutPredicts # <<>> => HoldoutPredicts[1].X = X_test
    /\ printed # <<>> => printed[1] = classification_report(X_test, [of |-> X_test, out |-> HoldoutPredicts[1].out])
    /\ (report /\ FoldFits # <<>>) =>
          (Len(HoldoutFits) = 1 /\ Len(HoldoutPredicts) = 1 /\ Len(printed) = 1)
    /\ pc = "ev_done" =>
          /\ Len(fitLog) = cv + (IF report THEN 1 ELSE 0)
          /\ Len(printed) = (IF report THEN 1 ELSE 0)
          /\ Len(HoldoutPredicts) = (IF report THEN 1 ELSE 0)

\* C4 witness: a call with report set has returned after cv + 1 fits
C4_Witness ==
    /\ pc = "ev_done" /\ report /\ Len(fitLog) = cv + 1
    /\ Len(printed) = 1

\* C10: at every fold's predict call the model has been fit on no sample of
\* that fold's test set.
C10_NoLeakage ==
    \A i \in 1..Len(predictLog) :
        predictLog[i].phase = "fold" => predictLog[i].X \cap predictLog[i].seen = {}

=============================================================================
